---- MODULE Spec2Model ----
(***************************************************************************)
(* A model of the Reddit stock-symbol crawler (reddit_stock_crawler.py):   *)
(* ticker extraction, SEC ticker loading, the crawl of the subreddits and  *)
(* the ranking of the counted symbols.                                     *)
(*                                                                         *)
(* A text is a sequence of one-character strings; a symbol is a text.      *)
(***************************************************************************)
EXTENDS Integers, Sequences, FiniteSets, TLC

VARIABLES
    pc,             \* where the operation under way stands
    text,           \* the argument of extract_tickers
    valid_tickers,  \* self.valid_tickers
    extracted,      \* the value extract_tickers returned
    subreddits,     \* what Reddit serves: per subreddit its hot posts, in order
    base,           \* the arrangement the served order is a permutation of
    num_stocks,     \* the argument of get_top_stocks
    si, pi, ci,     \* the subreddit, post and comment the loops stand at
    ticker_counter, \* the Counter of crawl_subreddit
    total_counter,  \* the Counter of get_top_stocks
    failAt,         \* per subreddit, where its crawl raised (NoFail: nowhere)
    result,         \* the value get_top_stocks returned
    local_file,     \* sec_tickers.json: missing, unreadable, no JSON, or a value
    web_response,   \* what the fetch from sec.gov comes to
    idx,            \* the entry the loop of _load_sec_tickers stands at
    tickers,        \* the set _load_sec_tickers builds
    exc,            \* the exception last raised in _load_sec_tickers
    loaded          \* the value _load_sec_tickers returned

crawlVars == <<subreddits, base, num_stocks, si, pi, ci, ticker_counter,
               total_counter, failAt, result>>

extractVars == <<text, extracted>>

loadVars == <<local_file, web_response, idx, tickers, exc, loaded>>

vars == <<pc, valid_tickers, extractVars, crawlVars, loadVars>>

----------------------------------------------------------------------------
(* Characters, str.upper() and the regular expressions.                    *)

UpperAZ == <<"A", "B", "C", "D", "E", "F", "G", "H", "I", "J", "K", "L", "M", "N", "O", "P", "Q", "R", "S", "T", "U", "V", "W", "X", "Y", "Z">>

LowerAZ == <<"a", "b", "c", "d", "e", "f", "g", "h", "i", "j", "k", "l", "m", "n", "o", "p", "q", "r", "s", "t", "u", "v", "w", "x", "y", "z">>

Digits == {"0", "1", "2", "3", "4", "5", "6", "7", "8", "9"}

Range(f) == {f[i] : i \in DOMAIN f}

\* str.upper() on one character: a lower-case letter becomes its capital.
UpperChar(c) ==
    IF \E i \in DOMAIN LowerAZ : LowerAZ[i] = c
    THEN UpperAZ[CHOOSE i \in DOMAIN LowerAZ : LowerAZ[i] = c]
    ELSE c

\* text.upper()
RECURSIVE upper(_)
upper(s) == IF s = <<>> THEN <<>> ELSE <<UpperChar(Head(s))>> \o upper(Tail(s))

UpperLetters == Range(UpperAZ)

WordChars == Range(UpperAZ) \cup Range(LowerAZ) \cup Digits \cup {"_"}

\* the character class [A-Z]
IsAZ(c) == c \in UpperLetters

\* \w of the re module: letters, digits and the underscore
IsWordChar(c) == c \in WordChars

WordAt(s, p) == p >= 1 /\ p <= Len(s) /\ IsWordChar(s[p])

\* \b in front of position p: exactly one of s[p-1], s[p] is a word character
WordBoundary(s, p) == WordAt(s, p - 1) # WordAt(s, p)

\* the quantifier bound of [A-Z]{1,5}
MaxTickerLen == 5

\* ([A-Z]{1,5})\b tried at position q, greedy with backtracking: the length
\* of the group, 0 when the group cannot match there.
GroupLen(s, q) ==
    LET ok == {k \in 1..MaxTickerLen :
                  /\ q + k - 1 <= Len(s)
                  /\ \A i \in q..(q + k - 1) : IsAZ(s[i])
                  /\ WordBoundary(s, q + k)}
    IN IF ok = {} THEN 0 ELSE CHOOSE k \in ok : \A j \in ok : j <= k

\* re.compile(r'\b\$?([A-Z]{1,5})\b') tried at position p: where the group
\* starts and how long it is (len = 0: no match at p).
ticker_pattern(s, p) ==
    IF ~WordBoundary(s, p) THEN [from |-> p, len |-> 0]
    ELSE IF p <= Len(s) /\ s[p] = "$" /\ GroupLen(s, p + 1) > 0
         THEN [from |-> p + 1, len |-> GroupLen(s, p + 1)]
         ELSE [from |-> p, len |-> GroupLen(s, p)]

\* re.compile(r'\$([A-Z]{1,5})\b') tried at position p.
dollar_pattern(s, p) ==
    IF p <= Len(s) /\ s[p] = "$"
    THEN [from |-> p + 1, len |-> GroupLen(s, p + 1)]
    ELSE [from |-> p, len |-> 0]

MatchAt(pat, s, p) ==
    IF pat = "ticker" THEN ticker_pattern(s, p) ELSE dollar_pattern(s, p)

\* set(pattern.findall(s)): scan from the left, resume after each match.
RECURSIVE findall(_, _, _)
findall(pat, s, p) ==
    IF p > Len(s) THEN {}
    ELSE LET m == MatchAt(pat, s, p)
         IN IF m.len = 0 THEN findall(pat, s, p + 1)
            ELSE {SubSeq(s, m.from, m.from + m.len - 1)}
                     \cup findall(pat, s, m.from + m.len)

\* str.isdigit()
isdigit(s) == Len(s) > 0 /\ \A i \in DOMAIN s : s[i] \in Digits

\* the $ leniency without its length test
AcceptsAnyDollar(match, whitelist, dollar_matches) ==
    \/ match \in whitelist
    \/ match \in dollar_matches

\* the membership tests of the loop over the matches
Accepts(match, whitelist, dollar_matches) ==
    \/ match \in whitelist
    \/ match \in dollar_matches /\ Len(match) >= 2

\* RedditStockCrawler.extract_tickers
extract_tickers(txt, whitelist) ==
    IF Len(txt) = 0 THEN {}
    ELSE LET dollar_matches == findall("dollar", upper(txt), 1)
             matches == findall("ticker", upper(txt), 1)
         IN {match \in matches :
                /\ ~(Len(match) > MaxTickerLen \/ isdigit(match))
                /\ Accepts(match, whitelist, dollar_matches)}

NoFile == [kind |-> "none"]

\* the constant set _load_sec_tickers falls back to
FallbackTickers ==
    {
      <<"A","A","P","L">>, <<"M","S","F","T">>, <<"G","O","O","G","L">>, <<"G","O","O","G">>,
      <<"A","M","Z","N">>, <<"T","S","L","A">>, <<"M","E","T","A">>, <<"N","V","D","A">>,
      <<"N","F","L","X">>, <<"C","R","M">>, <<"O","R","C","L">>, <<"A","D","B","E">>,
      <<"U","B","E","R">>, <<"A","B","N","B">>, <<"C","O","I","N">>, <<"R","B","L","X">>,
      <<"G","M","E">>, <<"A","M","C">>, <<"B","B">>, <<"N","O","K">>,
      <<"P","L","T","R">>, <<"W","I","S","H">>, <<"C","L","O","V">>, <<"M","V","I","S">>,
      <<"S","P","Y">>, <<"Q","Q","Q">>, <<"I","W","M">>, <<"V","T","I">>,
      <<"V","O","O">>, <<"S","Q","Q","Q">>, <<"T","Q","Q","Q">>, <<"U","V","X","Y">>,
      <<"A","M","D">>, <<"I","N","T","E","L">>, <<"M","U">>, <<"Q","C","O","M">>,
      <<"A","M","A","T">>, <<"L","R","C","X">>, <<"K","L","A","C">>, <<"M","C","H","P">>,
      <<"B","R","K">>, <<"B","R","K","A">>, <<"B","R","K","B">> }

----------------------------------------------------------------------------
(* What a text mentions, stated on the occurrences of tokens in the text.  *)

\* u[i..j] is a whole word of 1 to 5 capital letters
IsTokenAt(u, i, j) ==
    /\ i <= j /\ j - i + 1 <= MaxTickerLen
    /\ \A k \in i..j : IsAZ(u[k])
    /\ (i = 1 \/ ~IsWordChar(u[i - 1]))
    /\ (j = Len(u) \/ ~IsWordChar(u[j + 1]))

CandidateTokens(txt) ==
    LET u == upper(txt)
    IN {SubSeq(u, i, j) : <<i, j>> \in
           {ij \in (1..Len(u)) \X (1..Len(u)) : IsTokenAt(u, ij[1], ij[2])}}

DollarTokens(txt) ==
    LET u == upper(txt)
    IN {SubSeq(u, i, j) : <<i, j>> \in
           {ij \in (1..Len(u)) \X (1..Len(u)) :
               IsTokenAt(u, ij[1], ij[2]) /\ ij[1] > 1 /\ u[ij[1] - 1] = "$"}}

Mentions(txt, whitelist) ==
    {t \in CandidateTokens(txt) :
        t \in whitelist \/ (t \in DollarTokens(txt) /\ Len(t) >= 2)}

----------------------------------------------------------------------------
(* Extraction from one text.                                               *)

MaxTextLen == 6

ExtractAlphabet == {"A", "b", "$", " ", "1"}

RECURSIVE TextsUpTo(_)
TextsUpTo(n) ==
    IF n = 0 THEN {<<>>}
    ELSE LET shorter == TextsUpTo(n - 1)
         IN shorter \cup {Append(t, c) : t \in {x \in shorter : Len(x) = n - 1},
                                          c \in ExtractAlphabet}

ExtractWhitelists ==
    { {}, {<<"A">>}, {<<"B">>, <<"A", "B">>} }

InitExtract ==
    /\ pc = "extract"
    /\ text \in TextsUpTo(MaxTextLen)
    /\ valid_tickers \in ExtractWhitelists
    /\ extracted = {}
    /\ subreddits = <<>> /\ base = <<>> /\ num_stocks = 0
    /\ si = 0 /\ pi = 0 /\ ci = 0
    /\ ticker_counter = <<>> /\ total_counter = <<>>
    /\ failAt = <<>> /\ result = <<>>
    /\ local_file = NoFile /\ web_response = NoFile
    /\ idx = 0 /\ tickers = {} /\ exc = "none" /\ loaded = {}

ExtractTickers ==
    /\ pc = "extract"
    /\ extracted' = extract_tickers(text, valid_tickers)
    /\ pc' = "extracted"
    /\ UNCHANGED <<text, valid_tickers, crawlVars, loadVars>>

NextExtract == ExtractTickers

SpecExtract == InitExtract /\ [][NextExtract]_vars

----------------------------------------------------------------------------
(* collections.Counter: the pairs <<symbol, count>> in insertion order.    *)

Min(a, b) == IF a <= b THEN a ELSE b

Keys(c) == {c[i][1] : i \in DOMAIN c}

\* c[sym], 0 for a missing key
Get(c, sym) ==
    IF sym \in Keys(c)
    THEN c[CHOOSE i \in DOMAIN c : c[i][1] = sym][2]
    ELSE 0

\* c[sym] += k: a new key goes to the end
CounterAdd(c, sym, k) ==
    IF sym \in Keys(c)
    THEN [i \in DOMAIN c |-> IF c[i][1] = sym THEN <<sym, c[i][2] + k>> ELSE c[i]]
    ELSE Append(c, <<sym, k>>)

\* for ticker in tickers: counter[ticker] += 1, the tickers taken in `order`
RECURSIVE CountAll(_, _)
CountAll(c, order) ==
    IF order = <<>> THEN c
    ELSE CountAll(CounterAdd(c, Head(order), 1), Tail(order))

\* dict.update in the place of Counter.update: other's counts replace c's
RECURSIVE update_replacing(_, _)
update_replacing(c, other) ==
    IF other = <<>> THEN c
    ELSE update_replacing(
             IF Head(other)[1] \in Keys(c)
             THEN [i \in DOMAIN c |-> IF c[i][1] = Head(other)[1] THEN Head(other) ELSE c[i]]
             ELSE Append(c, Head(other)),
             Tail(other))

\* Counter.update(other): other's counts are added, in other's order
RECURSIVE update(_, _)
update(c, other) ==
    IF other = <<>> THEN c
    ELSE update(CounterAdd(c, Head(other)[1], Head(other)[2]), Tail(other))

\* the orders in which iterating over a set of strings may yield its members
Orderings(S) ==
    {o \in [1..Cardinality(S) -> S] : \A i, j \in DOMAIN o : i # j => o[i] # o[j]}

\* sorted(items, key=count, reverse=True): stable, so equal counts keep the
\* order in which they stand in the Counter
RECURSIVE InsertByCount(_, _)
InsertByCount(sorted, item) ==
    IF sorted = <<>> THEN <<item>>
    ELSE IF Head(sorted)[2] >= item[2]
         THEN <<Head(sorted)>> \o InsertByCount(Tail(sorted), item)
         ELSE <<item>> \o sorted

RECURSIVE SortedByCount(_)
SortedByCount(c) ==
    IF c = <<>> THEN <<>>
    ELSE InsertByCount(SortedByCount(SubSeq(c, 1, Len(c) - 1)), c[Len(c)])

\* most_common without the cut to n entries
most_common_uncut(c, n) ==
    IF n <= 0 THEN <<>> ELSE SortedByCount(c)

\* Counter.most_common(n)
most_common(c, n) ==
    IF n <= 0 THEN <<>>
    ELSE SubSeq(SortedByCount(c), 1, Min(n, Len(c)))

----------------------------------------------------------------------------
(* The crawl: get_top_stocks calling crawl_subreddit per subreddit.        *)

\* limit of crawl_subreddit
Limit == 25

\* submission.comments[:10]
TopComments == 10

\* get_top_stocks(10) in main, and the default of num_stocks
DefaultNumStocks == 10

NoFail == [post |-> 0, stage |-> "none", comment |-> 0]

\* subreddit.hot(limit=limit)
hot(s) == SubSeq(subreddits[s], 1, Min(Limit, Len(subreddits[s])))

submission == hot(si)[pi]

\* the comments without the [:10]
all_comments(post) == post.comments

top_comments(post) == SubSeq(post.comments, 1, Min(TopComments, Len(post.comments)))

\* for subreddit_name in self.subreddits: enter crawl_subreddit with a fresh
\* Counter, or leave the loop
ForSubreddit ==
    /\ pc = "for_subreddit"
    /\ IF si <= Len(subreddits)
       THEN /\ ticker_counter' = <<>>
            /\ pi' = 1
            /\ pc' = "hot"
       ELSE /\ pc' = "most_common"
            /\ UNCHANGED <<ticker_counter, pi>>
    /\ UNCHANGED <<loadVars, valid_tickers, extractVars, subreddits, base, num_stocks, si, ci,
                   total_counter, failAt, result>>

\* for submission in subreddit.hot(limit=limit): the next post, or the end
NextSubmission ==
    /\ pc = "hot"
    /\ pc' = IF pi <= Len(hot(si)) THEN "post" ELSE "return"
    /\ UNCHANGED <<loadVars, valid_tickers, extractVars, crawlVars>>

\* title and selftext: one set of tickers, each counted once
CountPost ==
    /\ pc = "post"
    /\ LET post_tickers == extract_tickers(submission.title, valid_tickers)
                             \cup extract_tickers(submission.selftext, valid_tickers)
       IN \E order \in Orderings(post_tickers) :
             ticker_counter' = CountAll(ticker_counter, order)
    /\ pc' = "replace_more"
    /\ UNCHANGED <<loadVars, valid_tickers, extractVars, subreddits, base, num_stocks, si, pi, ci,
                   total_counter, failAt, result>>

\* submission.comments.replace_more(limit=0)
ReplaceMore ==
    /\ pc = "replace_more"
    /\ ci' = 1
    /\ pc' = "comments"
    /\ UNCHANGED <<loadVars, valid_tickers, extractVars, subreddits, base, num_stocks, si, pi,
                   ticker_counter, total_counter, failAt, result>>

\* one round of for comment in submission.comments[:10]
CountComment ==
    /\ pc = "comments"
    /\ ci <= Len(top_comments(submission))
    /\ LET comment_tickers ==
               extract_tickers(top_comments(submission)[ci], valid_tickers)
       IN \E order \in Orderings(comment_tickers) :
             ticker_counter' = CountAll(ticker_counter, order)
    /\ ci' = ci + 1
    /\ UNCHANGED <<loadVars, pc, valid_tickers, extractVars, subreddits, base, num_stocks, si, pi,
                   total_counter, failAt, result>>

\* the comments are done: time.sleep(0.1), on to the next post
EndPost ==
    /\ pc = "comments"
    /\ ci > Len(top_comments(submission))
    /\ pi' = pi + 1
    /\ pc' = "hot"
    /\ UNCHANGED <<loadVars, valid_tickers, extractVars, subreddits, base, num_stocks, si, ci,
                   ticker_counter, total_counter, failAt, result>>

\* a call to Reddit inside the try block raises: listing the posts, reading
\* a post, expanding its comments, reading a comment
CrawlFails ==
    /\ \/ pc \in {"hot", "post", "replace_more"}
       \/ pc = "comments" /\ ci <= Len(top_comments(submission))
    /\ failAt[si] = NoFail
    /\ failAt' = [failAt EXCEPT ![si] =
                     [post |-> pi, stage |-> pc,
                      comment |-> IF pc = "comments" THEN ci ELSE 0]]
    /\ pc' = "except"
    /\ UNCHANGED <<loadVars, valid_tickers, extractVars, subreddits, base, num_stocks, si, pi, ci,
                   ticker_counter, total_counter, result>>

\* an except clause that raises again
AfterExceptReraise == "propagated"

\* where crawl_subreddit goes on after its except clause
AfterExcept == "return"

\* except Exception as e: print, and fall through to the return
ExceptHandler ==
    /\ pc = "except"
    /\ pc' = AfterExcept
    /\ UNCHANGED <<loadVars, valid_tickers, extractVars, crawlVars>>

\* return ticker_counter; total_counter.update(subreddit_counter)
ReturnCounter ==
    /\ pc = "return"
    /\ total_counter' = update(total_counter, ticker_counter)
    /\ si' = si + 1
    /\ pc' = "for_subreddit"
    /\ UNCHANGED <<loadVars, valid_tickers, extractVars, subreddits, base, num_stocks, pi, ci,
                   ticker_counter, failAt, result>>

\* top_stocks = total_counter.most_common(num_stocks); return top_stocks
MostCommon ==
    /\ pc = "most_common"
    /\ result' = most_common(total_counter, num_stocks)
    /\ pc' = "done"
    /\ UNCHANGED <<loadVars, valid_tickers, extractVars, subreddits, base, num_stocks, si, pi, ci,
                   ticker_counter, total_counter, failAt>>

----------------------------------------------------------------------------
(* What Reddit serves.                                                     *)

NumSubreddits == 2

MaxPosts == 2

GME == <<"G", "M", "E">>

DOGE == <<"D", "O", "G", "E">>

TextGme == <<"G", "M", "E">>

\* "$doge gme GME"
TextMix == <<"$", "d", "o", "g", "e", " ", "g", "m", "e", " ", "G", "M", "E">>

Titles == {TextGme}

Selftexts == {<<>>, TextMix}

CommentTexts == {TextGme, TextMix}

CrawlTexts == Titles \cup Selftexts \cup CommentTexts

SeqsUpTo(S, n) == UNION {[1..k -> S] : k \in 0..n}

Posts ==
    [title : Titles, selftext : Selftexts,
     comments : {<<>>, <<TextMix, TextGme>>}]

\* n subreddits holding at most k posts of the pool between them
RECURSIVE WorldsOf(_, _, _)
WorldsOf(pool, n, k) ==
    IF n = 0 THEN {<<>>}
    ELSE UNION {{<<posts>> \o w : w \in WorldsOf(pool, n - 1, k - Len(posts))} :
                posts \in SeqsUpTo(pool, k)}

RECURSIVE SumOver(_, _, _)
SumOver(F(_), s, k) == IF k = 0 THEN 0 ELSE F(s[k]) + SumOver(F, s, k - 1)

CrawlWhitelists == {FallbackTickers, {}}

Init ==
    /\ pc = "for_subreddit"
    /\ valid_tickers \in CrawlWhitelists
    /\ subreddits \in WorldsOf(Posts, NumSubreddits, MaxPosts)
    /\ base = <<>>
    /\ num_stocks \in {1, DefaultNumStocks}
    /\ si = 1 /\ pi = 0 /\ ci = 0
    /\ ticker_counter = <<>> /\ total_counter = <<>>
    /\ failAt = [s \in 1..NumSubreddits |-> NoFail]
    /\ result = <<>>
    /\ text = <<>> /\ extracted = {}
    /\ local_file = NoFile /\ web_response = NoFile
    /\ idx = 0 /\ tickers = {} /\ exc = "none" /\ loaded = {}

Next ==
    \/ ForSubreddit
    \/ NextSubmission
    \/ CountPost
    \/ ReplaceMore
    \/ CountComment
    \/ EndPost
    \/ CrawlFails
    \/ ExceptHandler
    \/ ReturnCounter
    \/ MostCommon

Spec == Init /\ [][Next]_vars

----------------------------------------------------------------------------
(* The counts a crawl is to arrive at, stated on the mentions of the text  *)
(* items.                                                                  *)

\* every symbol a served text can yield
CrawlSymbols == UNION {CandidateTokens(t) : t \in CrawlTexts}

\* Mentions, tabulated once for the served texts
MentionsOf ==
    [tw \in CrawlTexts \X CrawlWhitelists |-> Mentions(tw[1], tw[2])] @@ <<>>

One(b) == IF b THEN 1 ELSE 0

\* title and selftext taken as one item
HeadCount(sym, post, wl) ==
    One(sym \in MentionsOf[<<post.title, wl>>] \cup MentionsOf[<<post.selftext, wl>>])

\* the comments among the first `upto`, and among the first ten, mentioning sym
CommentCount(sym, post, upto, wl) ==
    Cardinality({k \in 1..Min(upto, Min(TopComments, Len(post.comments))) :
                    sym \in MentionsOf[<<post.comments[k], wl>>]})

PostTotal(sym, post, wl) ==
    HeadCount(sym, post, wl) + CommentCount(sym, post, TopComments, wl)

FullCount(sym, posts, wl) ==
    LET Of(post) == PostTotal(sym, post, wl)
    IN SumOver(Of, posts, Min(Limit, Len(posts)))

\* what has been counted when the crawl of `posts` stands at position f
CountedUpTo(sym, posts, f, wl) ==
    LET Of(post) == PostTotal(sym, post, wl)
    IN SumOver(Of, posts, f.post - 1)
         + (IF f.stage = "replace_more" THEN HeadCount(sym, posts[f.post], wl)
            ELSE IF f.stage = "comments"
                 THEN HeadCount(sym, posts[f.post], wl)
                        + CommentCount(sym, posts[f.post], f.comment - 1, wl)
                 ELSE 0)

\* C1: a symbol in both the title and the selftext of a post adds 2 to its
\* count, a symbol in only one of them adds 1.
C1_TitleAndSelftextCountTwice ==
    [][(pc = "post" /\ pc' = "replace_more") =>
          \A sym \in CrawlSymbols :
             Get(ticker_counter', sym) =
                Get(ticker_counter, sym)
                  + One(sym \in MentionsOf[<<submission.title, valid_tickers>>])
                  + One(sym \in MentionsOf[<<submission.selftext, valid_tickers>>])]_vars

\* C4: every symbol get_top_stocks returns is a member of valid_tickers.
C4_ResultInValidTickers ==
    pc = "done" => \A i \in DOMAIN result : result[i][1] \in valid_tickers

\* what subreddit s has contributed: all of it, or what stood counted where
\* its crawl raised
Contribution(sym, s) ==
    IF failAt[s] = NoFail
    THEN FullCount(sym, subreddits[s], valid_tickers)
    ELSE CountedUpTo(sym, subreddits[s], failAt[s], valid_tickers)

\* C5: a crawl that raises never leaves get_top_stocks by an exception;
\* every subreddit is still visited, a ranking is returned, and the totals
\* are the full counts of the subreddits that did not fail plus what each
\* failing one had counted before it failed.
C5_FailureIsContained ==
    /\ pc # "propagated"
    /\ pc = "done" =>
          /\ si = Len(subreddits) + 1
          /\ \A sym \in CrawlSymbols :
                Get(total_counter, sym) =
                   LET Of(s) == Contribution(sym, s)
                   IN SumOver(Of, [s \in 1..Len(subreddits) |-> s], Len(subreddits))
          /\ Keys(total_counter) \subseteq CrawlSymbols
          /\ Len(result) = Min(num_stocks, Len(total_counter))
          /\ \A i \in DOMAIN result : \E j \in DOMAIN total_counter :
                result[i] = total_counter[j]

C5_Witness ==
    /\ pc = "done"
    /\ failAt[1].stage = "comments" /\ failAt[1].comment = 2
    /\ Get(total_counter, GME) > FullCount(GME, subreddits[2], valid_tickers)
    /\ failAt[2] = NoFail
    /\ FullCount(GME, subreddits[2], valid_tickers) > 0
    /\ Len(result) > 0

----------------------------------------------------------------------------
(* One post with up to eleven comments.                                    *)

MaxComments == 11

CommentWorlds ==
    {<<<<[title |-> TextGme, selftext |-> <<>>, comments |-> c]>>>> :
        c \in SeqsUpTo(CommentTexts, MaxComments)}

InitComments ==
    /\ pc = "for_subreddit"
    /\ valid_tickers \in CrawlWhitelists
    /\ subreddits \in CommentWorlds
    /\ base = <<>>
    /\ num_stocks = DefaultNumStocks
    /\ si = 1 /\ pi = 0 /\ ci = 0
    /\ ticker_counter = <<>> /\ total_counter = <<>>
    /\ failAt = <<NoFail>>
    /\ result = <<>>
    /\ text = <<>> /\ extracted = {}
    /\ local_file = NoFile /\ web_response = NoFile
    /\ idx = 0 /\ tickers = {} /\ exc = "none" /\ loaded = {}

NextComments ==
    \/ ForSubreddit
    \/ NextSubmission
    \/ CountPost
    \/ ReplaceMore
    \/ CountComment
    \/ EndPost
    \/ ReturnCounter
    \/ MostCommon

SpecComments == InitComments /\ [][NextComments]_vars

\* C10: each of the first ten comments of a post that mentions a symbol adds
\* exactly 1 to its count, however often it mentions it; later comments add
\* nothing; counts never decrease during a crawl and are never negative.
C10_State ==
    /\ pc \in {"hot", "post", "replace_more", "comments"} =>
          \A sym \in CrawlSymbols :
             Get(ticker_counter, sym) =
                CountedUpTo(sym, subreddits[si],
                            [post |-> pi, stage |-> pc, comment |-> ci],
                            valid_tickers)
    /\ \A i \in DOMAIN ticker_counter : ticker_counter[i][2] >= 0
    /\ \A i \in DOMAIN total_counter : total_counter[i][2] >= 0

C10_Step ==
    /\ pc = "comments" /\ pc' = "comments" =>
          \A sym \in CrawlSymbols :
             Get(ticker_counter', sym) =
                Get(ticker_counter, sym)
                  + One(sym \in MentionsOf[<<submission.comments[ci], valid_tickers>>])
    /\ \A sym \in CrawlSymbols :
          /\ Get(total_counter', sym) >= Get(total_counter, sym)
          /\ pc # "for_subreddit" => Get(ticker_counter', sym) >= Get(ticker_counter, sym)

\* C10, as a whole: the count at every point of the crawl, and every step
\* of it.
C10_CommentsCountOnce == []C10_State /\ [][C10_Step]_vars

C10_Witness ==
    /\ pc = "hot" /\ pi = 2
    /\ valid_tickers = FallbackTickers
    /\ Len(subreddits[si][1].comments) = TopComments + 1
    /\ \A k \in 1..(TopComments - 1) : subreddits[si][1].comments[k] = TextGme
    /\ subreddits[si][1].comments[TopComments] = TextMix
    /\ subreddits[si][1].comments[TopComments + 1] = TextMix
    /\ subreddits[si][1].title = TextGme
    /\ Get(ticker_counter, GME) = TopComments + 1
    /\ Get(ticker_counter, DOGE) = 1

----------------------------------------------------------------------------
(* The same content served in another order.                               *)

OrderPosts ==
    [title : Titles, selftext : {<<>>},
     comments : {<<>>, <<TextGme, TextMix>>, <<TextMix, TextGme>>}]

PermsOf(s) == {[i \in DOMAIN s |-> s[p[i]]] : p \in Permutations(DOMAIN s)}

\* the sequences that take their i-th member from the i-th set
RECURSIVE Product(_)
Product(sets) ==
    IF Len(sets) = 0 THEN {<<>>}
    ELSE {<<h>> \o t : h \in Head(sets), t \in Product(Tail(sets))}

PermutedPost(post) ==
    {[post EXCEPT !.comments = c] : c \in PermsOf(post.comments)}

PermutedPosts(posts) ==
    UNION {Product([i \in DOMAIN o |-> PermutedPost(o[i])]) : o \in PermsOf(posts)}

\* the subreddits, the posts of each and the comments of each post reordered
Arrangements(world) ==
    UNION {Product([s \in DOMAIN o |-> PermutedPosts(o[s])]) : o \in PermsOf(world)}

InitOrder ==
    /\ pc = "for_subreddit"
    /\ valid_tickers \in CrawlWhitelists
    /\ base \in WorldsOf(OrderPosts, NumSubreddits, MaxPosts)
    /\ subreddits \in Arrangements(base)
    /\ num_stocks = DefaultNumStocks
    /\ si = 1 /\ pi = 0 /\ ci = 0
    /\ ticker_counter = <<>> /\ total_counter = <<>>
    /\ failAt = [s \in 1..NumSubreddits |-> NoFail]
    /\ result = <<>>
    /\ text = <<>> /\ extracted = {}
    /\ local_file = NoFile /\ web_response = NoFile
    /\ idx = 0 /\ tickers = {} /\ exc = "none" /\ loaded = {}

NextOrder ==
    \/ ForSubreddit
    \/ NextSubmission
    \/ CountPost
    \/ ReplaceMore
    \/ CountComment
    \/ EndPost
    \/ ReturnCounter
    \/ MostCommon

SpecOrder == InitOrder /\ [][NextOrder]_vars

\* C8: when no source fails, the total of every symbol at the end of
\* get_top_stocks is the same for every order of the subreddits, of the posts
\* in them and of the comments of each post: it is the total of the
\* arrangement the served order is a permutation of.
C8_TotalsOrderIndependent ==
    pc = "done" =>
       \A sym \in CrawlSymbols :
          Get(total_counter, sym) =
             LET Of(posts) == FullCount(sym, posts, valid_tickers)
             IN SumOver(Of, base, Len(base))

C8_Witness ==
    /\ pc = "done"
    /\ base[1] # base[2]
    /\ Len(base[1]) = 1 /\ Len(base[2]) = 1
    /\ base[1][1].comments = <<TextGme, TextMix>>
    /\ subreddits[2][1].comments = <<TextMix, TextGme>>
    /\ subreddits[1] = base[2]
    /\ Get(total_counter, DOGE) > 0
    /\ Get(total_counter, GME) > 1

----------------------------------------------------------------------------
(* The ranking of a Counter.                                               *)

MaxCount == 5

MaxN == 4

AAPL == <<"A", "A", "P", "L">>

TSLA == <<"T", "S", "L", "A">>

RankSymbols == {AAPL, TSLA, GME}

\* the Counters a crawl can end with: any symbols, first counted in any order
RankCounters ==
    UNION {{c \in [1..k -> RankSymbols \X (1..MaxCount)] :
               \A i, j \in 1..k : i # j => c[i][1] # c[j][1]} :
           k \in 0..Cardinality(RankSymbols)}

InitRank ==
    /\ pc = "most_common"
    /\ valid_tickers = FallbackTickers
    /\ total_counter \in RankCounters
    /\ num_stocks \in (-1)..MaxN
    /\ subreddits = <<>> /\ base = <<>>
    /\ si = 1 /\ pi = 0 /\ ci = 0
    /\ ticker_counter = <<>>
    /\ failAt = <<>>
    /\ result = <<>>
    /\ text = <<>> /\ extracted = {}
    /\ local_file = NoFile /\ web_response = NoFile
    /\ idx = 0 /\ tickers = {} /\ exc = "none" /\ loaded = {}

NextRank == MostCommon

SpecRank == InitRank /\ [][NextRank]_vars

Ord(c) == CHOOSE i \in DOMAIN UpperAZ : UpperAZ[i] = c

\* a < b for strings of capital letters
RECURSIVE LexLess(_, _)
LexLess(a, b) ==
    IF b = <<>> THEN FALSE
    ELSE IF a = <<>> THEN TRUE
    ELSE IF Head(a) # Head(b) THEN Ord(Head(a)) < Ord(Head(b))
    ELSE LexLess(Tail(a), Tail(b))

\* C2: for N >= 1, entries of the ranking with equal counts stand in
\* ascending order of their symbols, whatever the order of first counting.
C2_TiesBySymbolAscending ==
    (pc = "done" /\ num_stocks >= 1) =>
       \A i, j \in DOMAIN result :
          (i < j /\ result[i][2] = result[j][2]) => LexLess(result[i][1], result[j][1])

\* C3: get_top_stocks with num_stocks <= 0 never returns a sequence.
C3_NonPositiveNeverReturns ==
    num_stocks <= 0 => pc # "done"

\* C9: for N >= 1 the ranking has length min(N, number of counted symbols),
\* holds no symbol twice, is sorted by count non-increasing, leaves out no
\* symbol with a count greater than one it includes, and is empty for an
\* empty mapping.
C9_RankingShape ==
    (pc = "done" /\ num_stocks >= 1) =>
       /\ Len(result) = Min(num_stocks, Cardinality(Keys(total_counter)))
       /\ \A i, j \in DOMAIN result : i # j => result[i][1] # result[j][1]
       /\ \A i \in DOMAIN result : result[i][2] = Get(total_counter, result[i][1])
       /\ \A i, j \in DOMAIN result : i < j => result[i][2] >= result[j][2]
       /\ \A sym \in Keys(total_counter) \ Keys(result) :
             \A i \in DOMAIN result : Get(total_counter, sym) <= result[i][2]
       /\ total_counter = <<>> => result = <<>>

C9_Witness ==
    /\ pc = "done"
    /\ num_stocks = 2
    /\ total_counter = <<<<GME, 3>>, <<TSLA, 5>>, <<AAPL, 5>>>>
    /\ result = <<<<TSLA, 5>>, <<AAPL, 5>>>>

----------------------------------------------------------------------------
(* _load_sec_tickers: the local file, else the web, else the constant set. *)

\* len(base_ticker) <= 5
MaxBaseLen == 5

\* s.split(sep)[0]: what stands before the first sep
RECURSIVE BeforeFirst(_, _)
BeforeFirst(s, sep) ==
    IF s = <<>> \/ Head(s) = sep THEN <<>>
    ELSE <<Head(s)>> \o BeforeFirst(Tail(s), sep)

Contains(s, c) == \E i \in DOMAIN s : s[i] = c

\* what one upper-cased ticker adds to the set
TickerForms(ticker) ==
    LET base_ticker == BeforeFirst(BeforeFirst(ticker, "-"), ".")
    IN IF ticker = <<>> THEN {}
       ELSE (IF base_ticker # <<>> /\ Len(base_ticker) <= MaxBaseLen
             THEN {base_ticker} ELSE {})
              \cup (IF Contains(ticker, "-") \/ Contains(ticker, ".")
                    THEN {ticker} ELSE {})

\* except requests.RequestException in the place of except Exception
OuterCatchesRequestErrors(e) == e \in {"ConnectionError", "HTTPError"}

\* the exceptions `except Exception` catches
OuterCatches(e) == TRUE

\* the elements `for item in ticker_data` visits: the members of a list, the
\* keys of an object
LocalElements(doc) ==
    IF doc.type = "list" THEN doc.items
    ELSE [i \in DOMAIN doc.items |-> [type |-> "string", ticker |-> "absent", val |-> <<>>]]

\* open('sec_tickers.json', 'r')
OpenLocal ==
    /\ pc = "open"
    /\ IF local_file.kind = "missing"
       THEN exc' = "FileNotFoundError" /\ pc' = "inner_raised"
       ELSE IF local_file.kind = "unreadable"
       THEN exc' = "PermissionError" /\ pc' = "inner_raised"
       ELSE exc' = exc /\ pc' = "json_load"
    /\ UNCHANGED <<valid_tickers, extractVars, crawlVars, local_file, web_response,
                   idx, tickers, loaded>>

\* ticker_data = json.load(f); tickers = set()
JsonLoad ==
    /\ pc = "json_load"
    /\ IF local_file.kind = "not_json"
       THEN /\ exc' = "JSONDecodeError" /\ pc' = "inner_raised"
            /\ UNCHANGED <<tickers, idx>>
       ELSE IF local_file.doc.type = "number"
       THEN \* for item in ticker_data: an int is not iterable
            /\ exc' = "TypeError" /\ pc' = "inner_raised"
            /\ tickers' = {} /\ idx' = idx
       ELSE /\ tickers' = {} /\ idx' = 1 /\ pc' = "local_loop"
            /\ exc' = exc
    /\ UNCHANGED <<valid_tickers, extractVars, crawlVars, local_file, web_response, loaded>>

\* one round of a loop over the entries, raising into `raised` on an entry
\* that has no .get or whose ticker has no .upper; after the last entry the
\* set is returned
LoopStep(here, elements, raised) ==
    /\ pc = here
    /\ IF idx > Len(elements)
       THEN /\ loaded' = tickers /\ pc' = "returned"
            /\ UNCHANGED <<tickers, idx, exc>>
       ELSE LET item == elements[idx]
            IN IF item.type # "object" \/ item.ticker = "null"
               THEN /\ exc' = "AttributeError" /\ pc' = raised
                    /\ UNCHANGED <<tickers, idx, loaded>>
               ELSE /\ tickers' = tickers \cup
                           TickerForms(upper(IF item.ticker = "absent"
                                             THEN <<>> ELSE item.val))
                    /\ idx' = idx + 1
                    /\ UNCHANGED <<pc, exc, loaded>>
    /\ UNCHANGED <<valid_tickers, extractVars, crawlVars, local_file, web_response>>

\* for item in ticker_data: ...; return tickers
LocalLoop == LoopStep("local_loop", LocalElements(local_file.doc), "inner_raised")

\* an exception left the inner try: except FileNotFoundError takes it, or it
\* goes on to the outer handler
InnerExcept ==
    /\ pc = "inner_raised"
    /\ pc' = IF exc = "FileNotFoundError" THEN "requests_get" ELSE "outer_raised"
    /\ UNCHANGED <<valid_tickers, extractVars, crawlVars, local_file, web_response,
                   idx, tickers, exc, loaded>>

\* response = requests.get(url, headers=headers, timeout=10)
RequestsGet ==
    /\ pc = "requests_get"
    /\ IF web_response.kind = "conn_error"
       THEN exc' = "ConnectionError" /\ pc' = "outer_raised"
       ELSE exc' = exc /\ pc' = "raise_for_status"
    /\ UNCHANGED <<valid_tickers, extractVars, crawlVars, local_file, web_response,
                   idx, tickers, loaded>>

\* response.raise_for_status()
RaiseForStatus ==
    /\ pc = "raise_for_status"
    /\ IF web_response.kind = "http_error"
       THEN exc' = "HTTPError" /\ pc' = "outer_raised"
       ELSE exc' = exc /\ pc' = "response_json"
    /\ UNCHANGED <<valid_tickers, extractVars, crawlVars, local_file, web_response,
                   idx, tickers, loaded>>

\* company_data = response.json(); tickers = set(); company_data.values()
ResponseJson ==
    /\ pc = "response_json"
    /\ IF web_response.kind = "not_json"
       THEN /\ exc' = "JSONDecodeError" /\ pc' = "outer_raised"
            /\ UNCHANGED <<tickers, idx>>
       ELSE IF web_response.doc.type # "object"
       THEN /\ exc' = "AttributeError" /\ pc' = "outer_raised"
            /\ tickers' = {} /\ idx' = idx
       ELSE /\ tickers' = {} /\ idx' = 1 /\ pc' = "web_loop"
            /\ exc' = exc
    /\ UNCHANGED <<valid_tickers, extractVars, crawlVars, local_file, web_response, loaded>>

\* for company_info in company_data.values(): ...; return tickers
WebLoop == LoopStep("web_loop", web_response.doc.items, "outer_raised")

\* except Exception as e: return the fallback set
OuterExcept ==
    /\ pc = "outer_raised"
    /\ IF OuterCatches(exc)
       THEN loaded' = FallbackTickers /\ pc' = "returned"
       ELSE loaded' = loaded /\ pc' = "propagated"
    /\ UNCHANGED <<valid_tickers, extractVars, crawlVars, local_file, web_response,
                   idx, tickers, exc>>

MaxItems == 2

\* "brk.a-b" and "ABCDEF"
TickerStrings ==
    { <<"b", "r", "k", ".", "a", "-", "b">>, <<"A", "B", "C", "D", "E", "F">> }

Items ==
    [type : {"object"}, ticker : {"string"}, val : TickerStrings]
      \cup { [type |-> "object", ticker |-> "absent", val |-> <<>>],
             [type |-> "object", ticker |-> "null", val |-> <<>>],
             [type |-> "string", ticker |-> "absent", val |-> <<>>] }

JsonDocs ==
    [type : {"list", "object"}, items : SeqsUpTo(Items, MaxItems)]
      \cup { [type |-> "number", items |-> <<>>] }

NoDoc == [type |-> "none", items |-> <<>>]

LocalFiles ==
    [kind : {"missing", "unreadable", "not_json"}, doc : {NoDoc}]
      \cup [kind : {"json"}, doc : JsonDocs]

WebResponses ==
    [kind : {"conn_error", "http_error", "not_json"}, doc : {NoDoc}]
      \cup [kind : {"json"}, doc : JsonDocs]

InitLoad ==
    /\ pc = "open"
    /\ local_file \in LocalFiles
    /\ web_response \in WebResponses
    /\ idx = 0 /\ tickers = {} /\ exc = "none" /\ loaded = {}
    /\ valid_tickers = {}
    /\ text = <<>> /\ extracted = {}
    /\ subreddits = <<>> /\ base = <<>> /\ num_stocks = 0
    /\ si = 0 /\ pi = 0 /\ ci = 0
    /\ ticker_counter = <<>> /\ total_counter = <<>>
    /\ failAt = <<>> /\ result = <<>>

NextLoad ==
    \/ OpenLocal
    \/ JsonLoad
    \/ LocalLoop
    \/ InnerExcept
    \/ RequestsGet
    \/ RaiseForStatus
    \/ ResponseJson
    \/ WebLoop
    \/ OuterExcept

SpecLoad == InitLoad /\ [][NextLoad]_vars

TickerChars == WordChars \cup {"-", "."}

\* an entry the loops take: an object whose ticker is a string or absent
EntryOk(item) == item.type = "object" /\ item.ticker # "null"

\* the local file is malformed: no JSON, or a value that cannot be iterated,
\* or one with an entry (for an object: a key) that is no ticker object
LocalMalformed ==
    \/ local_file.kind = "not_json"
    \/ /\ local_file.kind = "json"
       /\ \/ local_file.doc.type = "number"
          \/ local_file.doc.type = "object" /\ local_file.doc.items # <<>>
          \/ /\ local_file.doc.type = "list"
             /\ \E i \in DOMAIN local_file.doc.items : ~EntryOk(local_file.doc.items[i])

\* the web fetch fails, or its body is malformed: no JSON, no object, or an
\* object with a value that is no ticker object
WebFailsOrMalformed ==
    \/ web_response.kind \in {"conn_error", "http_error", "not_json"}
    \/ /\ web_response.kind = "json"
       /\ \/ web_response.doc.type # "object"
          \/ \E i \in DOMAIN web_response.doc.items : ~EntryOk(web_response.doc.items[i])

====
